---- MODULE Spec2Model ----
(***************************************************************************)
(* json-parser.py: the JSON query helper of audio-splitter.sh.             *)
(*                                                                         *)
(* One invocation is one behaviour: the argument check (lines 11-22), the  *)
(* load of the file (lines 24-32) and the dispatch on the query name       *)
(* (lines 34-83).  Text (the file's content, what json.dumps and print     *)
(* write) is a sequence of lexemes; Python objects are tagged records.     *)
(* An exception no except clause catches ends the process with a           *)
(* traceback on standard error and exit status 1.                          *)
(***************************************************************************)
EXTENDS Integers, Sequences, FiniteSets, TLC

VARIABLES argv, fs, pc, json_file, query, data, handle, stdout, stderr, exitcode

vars == <<argv, fs, pc, json_file, query, data, handle, stdout, stderr, exitcode>>

(* ------------------------------ bounds --------------------------------- *)

\* The longest `splits` array of the documents enumerated.
MaxSplits == 2
\* The largest index argument enumerated (the smallest is -1).
MaxIndex == 2

(* ------------------------------ lexemes -------------------------------- *)

\* One lexeme of a text: punctuation, a bare word, a decimal number, a
\* double-quoted string, or (Python repr only) a single-quoted string.
Tok(k, s, n) == [k |-> k, s |-> s, n |-> n]
P(s) == Tok("punct", s, 0)
W(s) == Tok("word", s, 0)
N(n) == Tok("num", "", n)
S(s) == Tok("str", s, 0)
Q(s) == Tok("pystr", s, 0)

(* --------------------------- Python objects ---------------------------- *)

\* What json.load builds: None, bool, int, float nan, str, list, dict (a
\* dict keeps its keys in insertion order).
Obj(t, b, n, s, items, keys) ==
    [t |-> t, b |-> b, n |-> n, s |-> s, items |-> items, keys |-> keys]
Null == Obj("null", FALSE, 0, "", <<>>, <<>>)
Bool(b) == Obj("bool", b, 0, "", <<>>, <<>>)
Num(n) == Obj("num", FALSE, n, "", <<>>, <<>>)
NaN == Obj("nan", FALSE, 0, "", <<>>, <<>>)
Str(s) == Obj("str", FALSE, 0, s, <<>>, <<>>)
List(items) == Obj("list", FALSE, 0, "", items, <<>>)
Dict(keys, items) == Obj("dict", FALSE, 0, "", items, keys)

\* The position of key k in a dict's key list, 0 when it has no such key.
KeyIndex(keys, k) ==
    IF \E i \in 1..Len(keys) : keys[i] = k
    THEN CHOOSE i \in 1..Len(keys) : keys[i] = k
    ELSE 0

\* d[k] = v on a dict under construction: a repeated key keeps its place
\* and takes the last value.
DictSet(keys, items, k, v) ==
    LET i == KeyIndex(keys, k)
    IN  IF i = 0 THEN [keys |-> Append(keys, k), items |-> Append(items, v)]
        ELSE [keys |-> keys, items |-> [items EXCEPT ![i] = v]]

(* ------------------------------ json.load ------------------------------ *)

\* A parse result: the value read and the position after it, or a failure.
Good(v, i) == [ok |-> TRUE, v |-> v, i |-> i]
Fail == [ok |-> FALSE, v |-> Null, i |-> 0]

RECURSIVE ParseValue(_, _), ParseElems(_, _, _), ParseMembers(_, _, _, _)

\* One JSON value starting at lexeme i.  Python's decoder also reads the
\* constant NaN, which is not JSON.
ParseValue(toks, i) ==
    IF i > Len(toks) THEN Fail
    ELSE LET t == toks[i]
         IN  CASE t.k = "str" -> Good(Str(t.s), i + 1)
               [] t.k = "num" -> Good(Num(t.n), i + 1)
               [] t.k = "word" ->
                    CASE t.s = "true" -> Good(Bool(TRUE), i + 1)
                      [] t.s = "false" -> Good(Bool(FALSE), i + 1)
                      [] t.s = "null" -> Good(Null, i + 1)
                      [] t.s = "NaN" -> Good(NaN, i + 1)
                      [] OTHER -> Fail
               [] t = P("[") ->
                    IF i + 1 <= Len(toks) /\ toks[i + 1] = P("]")
                    THEN Good(List(<<>>), i + 2)
                    ELSE ParseElems(toks, i + 1, <<>>)
               [] t = P("{") ->
                    IF i + 1 <= Len(toks) /\ toks[i + 1] = P("}")
                    THEN Good(Dict(<<>>, <<>>), i + 2)
                    ELSE ParseMembers(toks, i + 1, <<>>, <<>>)
               [] OTHER -> Fail

\* The elements of an array after "[" or ",": a value, then "," or "]".
ParseElems(toks, i, acc) ==
    LET r == ParseValue(toks, i)
    IN  IF ~r.ok \/ r.i > Len(toks) THEN Fail
        ELSE IF toks[r.i] = P(",") THEN ParseElems(toks, r.i + 1, Append(acc, r.v))
        ELSE IF toks[r.i] = P("]") THEN Good(List(Append(acc, r.v)), r.i + 1)
        ELSE Fail

\* The members of an object after "{" or ",": a string, ":", a value,
\* then "," or "}".
ParseMembers(toks, i, keys, items) ==
    IF i + 1 > Len(toks) \/ toks[i].k # "str" \/ toks[i + 1] # P(":") THEN Fail
    ELSE LET r == ParseValue(toks, i + 2)
             d == DictSet(keys, items, toks[i].s, r.v)
         IN  IF ~r.ok \/ r.i > Len(toks) THEN Fail
             ELSE IF toks[r.i] = P(",") THEN ParseMembers(toks, r.i + 1, d.keys, d.items)
             ELSE IF toks[r.i] = P("}") THEN Good(Dict(d.keys, d.items), r.i + 1)
             ELSE Fail

\* json.load of a decoded text: one value and nothing after it, else
\* JSONDecodeError.
Loads(toks) ==
    LET r == ParseValue(toks, 1)
    IN  IF r.ok /\ r.i = Len(toks) + 1 THEN r ELSE Fail

(* ------------------------------ json.dumps ----------------------------- *)

RECURSIVE Dumps(_), DumpItems(_, _), DumpMembers(_, _)

\* json.dumps(v): a float nan is written as the bare word NaN.
Dumps(v) ==
    CASE v.t = "null" -> <<W("null")>>
      [] v.t = "bool" -> <<W(IF v.b THEN "true" ELSE "false")>>
      [] v.t = "num" -> <<N(v.n)>>
      [] v.t = "nan" -> <<W("NaN")>>
      [] v.t = "str" -> <<S(v.s)>>
      [] v.t = "list" -> <<P("[")>> \o DumpItems(v.items, 1) \o <<P("]")>>
      [] v.t = "dict" -> <<P("{")>> \o DumpMembers(v, 1) \o <<P("}")>>

DumpItems(items, i) ==
    IF i > Len(items) THEN <<>>
    ELSE (IF i > 1 THEN <<P(",")>> ELSE <<>>) \o Dumps(items[i])
         \o DumpItems(items, i + 1)

DumpMembers(d, i) ==
    IF i > Len(d.keys) THEN <<>>
    ELSE (IF i > 1 THEN <<P(",")>> ELSE <<>>) \o <<S(d.keys[i]), P(":")>>
         \o Dumps(d.items[i]) \o DumpMembers(d, i + 1)

(* ------------------------------ str(value) ----------------------------- *)

RECURSIVE Repr(_), ReprItems(_, _), ReprMembers(_, _)

\* repr(v), which print shows for the values inside a list or a dict.
Repr(v) ==
    CASE v.t = "null" -> <<W("None")>>
      [] v.t = "bool" -> <<W(IF v.b THEN "True" ELSE "False")>>
      [] v.t = "num" -> <<N(v.n)>>
      [] v.t = "nan" -> <<W("nan")>>
      [] v.t = "str" -> <<Q(v.s)>>
      [] v.t = "list" -> <<P("[")>> \o ReprItems(v.items, 1) \o <<P("]")>>
      [] v.t = "dict" -> <<P("{")>> \o ReprMembers(v, 1) \o <<P("}")>>

ReprItems(items, i) ==
    IF i > Len(items) THEN <<>>
    ELSE (IF i > 1 THEN <<P(",")>> ELSE <<>>) \o Repr(items[i])
         \o ReprItems(items, i + 1)

ReprMembers(d, i) ==
    IF i > Len(d.keys) THEN <<>>
    ELSE (IF i > 1 THEN <<P(",")>> ELSE <<>>) \o <<Q(d.keys[i]), P(":")>>
         \o Repr(d.items[i]) \o ReprMembers(d, i + 1)

\* The line print(value) writes: a str as its own characters, unquoted
\* (nothing for the empty str), anything else as its repr.
PyStr(v) ==
    IF v.t = "str" THEN (IF v.s = "" THEN <<>> ELSE <<W(v.s)>>) ELSE Repr(v)

(* --------------------------- Python operators -------------------------- *)

\* The outcome of evaluating a query: the line to print, or the exception
\* raised before anything is printed.
Ok(line) == [exc |-> "", line |-> line]
Raise(exc) == [exc |-> exc, line |-> <<>>]

\* "splits" in s for a str s: a substring test.
HasSubstring(s, sub) ==
    \E i \in 1..(Len(s) - Len(sub) + 1) : SubSeq(s, i, i + Len(sub) - 1) = sub

\* Whether `"splits" in d` can be evaluated: None, bool, int and float
\* raise TypeError (not iterable).
Iterable(d) == d.t \in {"dict", "list", "str"}

\* `"splits" in d`: a key of a dict, an element of a list, a substring of
\* a str.
In(k, d) ==
    CASE d.t = "dict" -> KeyIndex(d.keys, k) # 0
      [] d.t = "list" -> \E i \in 1..Len(d.items) : d.items[i] = Str(k)
      [] d.t = "str" -> HasSubstring(d.s, k)
      [] OTHER -> FALSE

\* d["splits"] for a dict d that has the key.
DictGet(d, k) == d.items[KeyIndex(d.keys, k)]

\* Whether len(v) is defined.
Sized(v) == v.t \in {"list", "dict", "str"}

\* len(v).
PyLen(v) ==
    CASE v.t = "list" -> Len(v.items)
      [] v.t = "dict" -> Len(v.keys)
      [] v.t = "str" -> Len(v.s)
      [] OTHER -> 0

\* v[i] for 0 <= i < len(v): an element of a list, a character of a str.
\* (A dict raises KeyError: JSON keys are strings.)
Item(v, i) ==
    IF v.t = "list" THEN v.items[i + 1] ELSE Str(SubSeq(v.s, i + 1, i + 1))

\* int(arg): a decimal literal converts, any other word raises ValueError.
IsIntLiteral(arg) == arg.k = "num"

(* ------------------------------ the queries ---------------------------- *)

EmptyObject == <<P("{"), P("}")>>

\* has_splits, lines 40-43.
HasSplitsResult(d) ==
    IF ~Iterable(d) THEN Raise("TypeError")
    ELSE IF ~In("splits", d) THEN Ok(<<W("false")>>)
    ELSE IF d.t # "dict" THEN Raise("TypeError")
    ELSE IF DictGet(d, "splits").t = "list" THEN Ok(<<W("true")>>)
    ELSE Ok(<<W("false")>>)

\* count, lines 47-50.
CountResult(d) ==
    IF ~Iterable(d) THEN Raise("TypeError")
    ELSE IF ~In("splits", d) THEN Ok(<<N(0)>>)
    ELSE IF d.t # "dict" THEN Raise("TypeError")
    ELSE IF ~Sized(DictGet(d, "splits")) THEN Raise("TypeError")
    ELSE Ok(<<N(PyLen(DictGet(d, "splits")))>>)

\* What `"splits" in data and 0 <= index < len(data["splits"])` selects:
\* the element to use, the else branch, or the exception raised.  The
\* chained comparison tests 0 <= index before it reads data["splits"].
Select(d, index) ==
    IF ~Iterable(d) THEN [exc |-> "TypeError", hit |-> FALSE, v |-> Null]
    ELSE IF ~In("splits", d) \/ index < 0 THEN [exc |-> "", hit |-> FALSE, v |-> Null]
    ELSE IF d.t # "dict" \/ ~Sized(DictGet(d, "splits"))
         THEN [exc |-> "TypeError", hit |-> FALSE, v |-> Null]
    ELSE IF index >= PyLen(DictGet(d, "splits")) THEN [exc |-> "", hit |-> FALSE, v |-> Null]
    ELSE IF DictGet(d, "splits").t = "dict" THEN [exc |-> "KeyError", hit |-> FALSE, v |-> Null]
    ELSE [exc |-> "", hit |-> TRUE, v |-> Item(DictGet(d, "splits"), index)]

\* get_split, lines 58-62.
GetSplitResult(d, arg) ==
    IF ~IsIntLiteral(arg) THEN Raise("ValueError")
    ELSE LET sel == Select(d, arg.n)
         IN  IF sel.exc # "" THEN Raise(sel.exc)
             ELSE IF sel.hit THEN Ok(Dumps(sel.v))
             ELSE Ok(EmptyObject)

\* get_field, lines 70-78: split.get(field, "") needs a dict.
GetFieldResult(d, arg, field) ==
    IF ~IsIntLiteral(arg) THEN Raise("ValueError")
    ELSE LET sel == Select(d, arg.n)
         IN  IF sel.exc # "" THEN Raise(sel.exc)
             ELSE IF ~sel.hit THEN Ok(<<>>)
             ELSE IF sel.v.t # "dict" THEN Raise("AttributeError")
             ELSE IF KeyIndex(sel.v.keys, field) = 0 THEN Ok(<<>>)
             ELSE Ok(PyStr(DictGet(sel.v, field)))

(* ------------------------------ the process ---------------------------- *)

Msg(m, a) == [msg |-> m, arg |-> a]

\* The usage text, lines 12-18.
UsageText ==
    << Msg("Usage: json-parser.py <json_file> <query>", ""),
       Msg("Queries:", ""),
       Msg("  validate              - Validate JSON syntax", ""),
       Msg("  count                 - Count splits", ""),
       Msg("  has_splits            - Check if splits array exists", ""),
       Msg("  get_split N           - Get split at index N as JSON", ""),
       Msg("  get_field N field     - Get field from split N", "") >>

\* sys.exit(code) after the prints `out` (standard output) and `err`
\* (standard error).
Exit(code, out, err) ==
    /\ pc' = "exit"
    /\ exitcode' = code
    /\ stdout' = stdout \o out
    /\ stderr' = stderr \o err

\* An exception no except clause names: the interpreter prints the
\* traceback and ends with status 1.
Uncaught(exc) == Exit(1, <<>>, <<Msg("Traceback", exc)>>)

\* A query's print and sys.exit(0), or the exception it raised.
Finish(r) == IF r.exc = "" THEN Exit(0, <<r.line>>, <<>>) ELSE Uncaught(r.exc)

\* CheckArgs with the usage text printed without file=sys.stderr.
CheckArgs_UsageToStdout ==
    /\ pc = "args"
    /\ IF Len(argv) < 3
       THEN /\ Exit(1, [i \in 1..Len(UsageText) |-> <<W(UsageText[i].msg)>>], <<>>)
            /\ UNCHANGED <<json_file, query>>
       ELSE /\ json_file' = argv[2].s
            /\ query' = argv[3].s
            /\ pc' = "load"
            /\ UNCHANGED <<stdout, stderr, exitcode>>
    /\ UNCHANGED <<argv, fs, data, handle>>

\* Lines 11-22.
CheckArgs ==
    /\ pc = "args"
    /\ IF Len(argv) < 3
       THEN /\ Exit(1, <<>>, UsageText)
            /\ UNCHANGED <<json_file, query>>
       ELSE /\ json_file' = argv[2].s
            /\ query' = argv[3].s
            /\ pc' = "load"
            /\ UNCHANGED <<stdout, stderr, exitcode>>
    /\ UNCHANGED <<argv, fs, data, handle>>

\* Lines 24-32: open, json.load, and the two except clauses.  A file that
\* is not text in the locale's encoding raises UnicodeDecodeError, which
\* neither clause names.
LoadFile ==
    /\ pc = "load"
    /\ CASE fs.kind = "absent" ->
              /\ Exit(1, <<>>, <<Msg("File not found: ", json_file)>>)
              /\ handle' = "failed"
              /\ UNCHANGED data
         [] fs.kind = "binary" ->
              /\ Uncaught("UnicodeDecodeError")
              /\ handle' = "closed"
              /\ UNCHANGED data
         [] fs.kind = "text" /\ ~Loads(fs.text).ok ->
              /\ Exit(1, <<>>, <<Msg("Invalid JSON: ", "JSONDecodeError")>>)
              /\ handle' = "closed"
              /\ UNCHANGED data
         [] fs.kind = "text" /\ Loads(fs.text).ok ->
              /\ data' = [bound |-> TRUE, v |-> Loads(fs.text).v]
              /\ handle' = "closed"
              /\ pc' = "query"
              /\ UNCHANGED <<stdout, stderr, exitcode>>
    /\ UNCHANGED <<argv, fs, json_file, query>>

\* Lines 34-37.
Validate ==
    /\ pc = "query" /\ query = "validate"
    /\ Exit(0, << <<W("valid")>> >>, <<>>)
    /\ UNCHANGED <<argv, fs, json_file, query, data, handle>>

\* Lines 39-44.
HasSplits ==
    /\ pc = "query" /\ query = "has_splits"
    /\ Finish(HasSplitsResult(data.v))
    /\ UNCHANGED <<argv, fs, json_file, query, data, handle>>

\* Lines 46-51.
Count ==
    /\ pc = "query" /\ query = "count"
    /\ Finish(CountResult(data.v))
    /\ UNCHANGED <<argv, fs, json_file, query, data, handle>>

\* GetSplit with the membership test read before the argument count.
GetSplit_LateArgCheck ==
    /\ pc = "query" /\ query = "get_split"
    /\ IF ~Iterable(data.v) THEN Uncaught("TypeError")
       ELSE IF Len(argv) < 4
       THEN Exit(1, <<>>, <<Msg("Missing split index", "")>>)
       ELSE Finish(GetSplitResult(data.v, argv[4]))
    /\ UNCHANGED <<argv, fs, json_file, query, data, handle>>

\* Lines 53-63.
GetSplit ==
    /\ pc = "query" /\ query = "get_split"
    /\ IF Len(argv) < 4
       THEN Exit(1, <<>>, <<Msg("Missing split index", "")>>)
       ELSE Finish(GetSplitResult(data.v, argv[4]))
    /\ UNCHANGED <<argv, fs, json_file, query, data, handle>>

\* Lines 65-79.
GetField ==
    /\ pc = "query" /\ query = "get_field"
    /\ IF Len(argv) < 5
       THEN Exit(1, <<>>, <<Msg("Missing split index or field name", "")>>)
       ELSE Finish(GetFieldResult(data.v, argv[4], argv[5].s))
    /\ UNCHANGED <<argv, fs, json_file, query, data, handle>>

\* Lines 81-83.
UnknownQuery ==
    /\ pc = "query"
    /\ query \notin {"validate", "has_splits", "count", "get_split", "get_field"}
    /\ Exit(1, <<>>, <<Msg("Unknown query: ", query)>>)
    /\ UNCHANGED <<argv, fs, json_file, query, data, handle>>

(* ------------------------------ the inputs ----------------------------- *)

SeqsUpTo(E, n) == UNION {[1..k -> E] : k \in 0..n}

\* Elements of a `splits` array: split records, and values that are not
\* objects.
Elems ==
    { Dict(<<"name">>, <<Str("intro")>>),
      Dict(<<"x", "name">>, <<Num(2), Bool(TRUE)>>),
      Dict(<<"name", "x">>, <<Null, List(<<Num(1), Str("b")>>)>>),
      Dict(<<"x">>, <<NaN>>),
      Num(5), NaN, Str("a") }

\* Values under the key `splits`: arrays, and values of the other types.
SplitsValues ==
    {List(s) : s \in SeqsUpTo(Elems, MaxSplits)}
        \cup {Num(5), Null, Str("ab"), Dict(<<"a">>, <<Num(1)>>)}

\* Documents of every JSON type.
Documents ==
    {Dict(<<"splits">>, <<sv>>) : sv \in SplitsValues}
        \cup { Dict(<<>>, <<>>), Dict(<<"other">>, <<Num(1)>>),
               Dict(<<"other", "splits">>, <<Str("a"), List(<<Num(5)>>)>>),
               Null, Bool(TRUE), Num(5), NaN, Str("intro"), Str("my splits"),
               List(<<>>), List(<<Num(1)>>), List(<<Str("splits")>>) }

\* Texts json.load rejects: empty, a bare word, a trailing comma, two
\* values, an object left open.
Malformed ==
    { <<>>, <<P("{"), W("bad")>>, <<P("["), N(1), P(","), P("]")>>,
      <<N(1), N(2)>>, <<P("{"), S("splits"), P(":"), P("["), P("]")>> }

\* A text with a repeated key, which json.load accepts.
RepeatedKey ==
    <<P("{"), S("splits"), P(":"), N(1), P(","), S("splits"), P(":"),
      P("["), N(1), P("]"), P("}")>>

File(kind, text) == [kind |-> kind, text |-> text]

\* The file the path names: none, bytes that are no text, or a text.
Files ==
    {File("absent", <<>>), File("binary", <<>>)}
        \cup {File("text", Dumps(d)) : d \in Documents}
        \cup {File("text", m) : m \in Malformed \cup {RepeatedKey}}

IndexArgs == {N(i) : i \in (0 - 1)..MaxIndex} \cup {W("x")}

Fields == {"name", "x", "missing"}

Prog == W("json-parser.py")
Path == W("in.json")

\* Command lines: too few arguments, each query bare, with an index, and
\* with an index and a field.
Argvs ==
    {<<Prog>>, <<Prog, Path>>}
        \cup {<<Prog, Path, W(q)>> :
                q \in {"validate", "has_splits", "count", "get_split", "get_field", "bogus"}}
        \cup {<<Prog, Path, W(q), i>> :
                q \in {"count", "get_split", "get_field"}, i \in IndexArgs}
        \cup {<<Prog, Path, W("get_field"), i, W(f)>> : i \in IndexArgs, f \in Fields}

Init ==
    /\ argv \in Argvs
    /\ fs \in Files
    /\ pc = "args"
    /\ json_file = ""
    /\ query = ""
    /\ data = [bound |-> FALSE, v |-> Null]
    /\ handle = "unopened"
    /\ stdout = <<>>
    /\ stderr = <<>>
    /\ exitcode = 0 - 1

Next ==
    \/ CheckArgs
    \/ LoadFile
    \/ Validate
    \/ HasSplits
    \/ Count
    \/ GetSplit
    \/ GetField
    \/ UnknownQuery

Spec == Init /\ [][Next]_vars

(* ------------------------------ properties ----------------------------- *)

Done == pc = "exit"

\* The Document is a JSON object that has the key `splits`.
HasKey(d) == d.t = "dict" /\ KeyIndex(d.keys, "splits") # 0

\* The Document has no `splits` key, or has one whose value is an array.
SplitsAbsentOrArray(d) == HasKey(d) => DictGet(d, "splits").t = "list"

\* The index argument of the command line, when it is an integer.
HasIndex == Len(argv) >= 4 /\ IsIntLiteral(argv[4])

\* N selects an element of the `splits` array of d.
InRange(d, n) ==
    HasKey(d) /\ DictGet(d, "splits").t = "list"
        /\ 0 <= n /\ n < Len(DictGet(d, "splits").items)

\* The file's content is JSON: it parses and holds no NaN constant.
ValidJSON(f) ==
    f.kind = "text" /\ Loads(f.text).ok
        /\ \A i \in 1..Len(f.text) : f.text[i] # W("NaN")

RECURSIVE DeepEqual(_, _)

\* Deep equality of two values as Python's == decides it: lists element
\* by element, dicts key by key, and a nan equal to nothing.
DeepEqual(a, b) ==
    IF a.t # b.t \/ a.t = "nan" THEN FALSE
    ELSE IF a.t = "list"
         THEN Len(a.items) = Len(b.items)
              /\ \A i \in 1..Len(a.items) : DeepEqual(a.items[i], b.items[i])
    ELSE IF a.t = "dict"
         THEN {a.keys[i] : i \in 1..Len(a.keys)} = {b.keys[i] : i \in 1..Len(b.keys)}
              /\ \A i \in 1..Len(a.keys) :
                    DeepEqual(a.items[i], DictGet(b, a.keys[i]))
    ELSE a = b

\* C1: for every Document that loads, has_splits prints `true` exactly
\* when the Document is an object whose key `splits` holds an array,
\* prints `false` otherwise, and exits 0.
C1_HasSplitsTotal ==
    (Done /\ data.bound /\ query = "has_splits") =>
        /\ exitcode = 0
        /\ stdout = << <<W(IF HasKey(data.v) /\ DictGet(data.v, "splits").t = "list"
                           THEN "true" ELSE "false")>> >>

\* C2: for every Document that loads (its `splits` absent or an array)
\* and every integer N, get_split N prints the serialization of splits[N]
\* when 0 <= N < length(splits), prints {} otherwise, and exits 0.
C2_GetSplitTotal ==
    (Done /\ data.bound /\ query = "get_split" /\ HasIndex
          /\ SplitsAbsentOrArray(data.v)) =>
        /\ exitcode = 0
        /\ stdout = << IF InRange(data.v, argv[4].n)
                       THEN Dumps(DictGet(data.v, "splits").items[argv[4].n + 1])
                       ELSE EmptyObject >>

\* C3: for every Document that loads, every integer N and every field,
\* get_field N field prints the field's value when splits[N] exists and
\* has the field, prints an empty line when the field is missing, N is
\* out of range or `splits` is absent, and exits 0.
C3_GetFieldTotal ==
    (Done /\ data.bound /\ query = "get_field" /\ Len(argv) >= 5 /\ HasIndex
          /\ SplitsAbsentOrArray(data.v)
          /\ (InRange(data.v, argv[4].n)
                => DictGet(data.v, "splits").items[argv[4].n + 1].t = "dict")) =>
        /\ exitcode = 0
        /\ stdout = << IF InRange(data.v, argv[4].n)
                       THEN LET split == DictGet(data.v, "splits").items[argv[4].n + 1]
                            IN  IF KeyIndex(split.keys, argv[5].s) # 0
                                THEN PyStr(DictGet(split, argv[5].s))
                                ELSE <<>>
                       ELSE <<>> >>

\* C4: for every Document that loads, count prints the number of elements
\* of `splits` when the key is present and 0 otherwise, and exits 0.
C4_CountTotal ==
    (Done /\ data.bound /\ query = "count" /\ SplitsAbsentOrArray(data.v)) =>
        /\ exitcode = 0
        /\ stdout = << <<N(IF HasKey(data.v)
                           THEN Len(DictGet(data.v, "splits").items) ELSE 0)>> >>

\* C5: whatever the query name and its arguments, a file that does not
\* exist ends the invocation with `File not found` and status 1, and a
\* file whose content is not valid JSON ends it with `Invalid JSON` and
\* status 1; nothing else is printed in either case.
C5_LoadErrorsFirst ==
    (Done /\ Len(argv) >= 3) =>
        /\ fs.kind = "absent" =>
              /\ exitcode = 1 /\ stdout = <<>>
              /\ stderr = <<Msg("File not found: ", argv[2].s)>>
        /\ (fs.kind # "absent" /\ ~ValidJSON(fs)) =>
              /\ exitcode = 1 /\ stdout = <<>>
              /\ Len(stderr) = 1 /\ stderr[1].msg = "Invalid JSON: "

\* C6: one of the five queries, with its arguments supplied, on a file
\* that exists and parses, exits 0 whatever the Document's shape.
C6_KnownQueriesExitZero ==
    (Done /\ data.bound
          /\ query \in {"validate", "has_splits", "count", "get_split", "get_field"}
          /\ (query = "get_split" => HasIndex)
          /\ (query = "get_field" => Len(argv) >= 5 /\ HasIndex)) =>
        exitcode = 0

\* C7: an invocation ends in exactly one of two outcomes: status 0 with
\* one result on standard output and nothing on standard error, or status
\* 1 with a diagnostic on standard error and nothing on standard output;
\* until it ends it has written nothing.
C7_OneOutcome ==
    /\ Done =>
          \/ exitcode = 0 /\ Len(stdout) = 1 /\ stderr = <<>>
          \/ exitcode = 1 /\ Len(stderr) >= 1 /\ stdout = <<>>
    /\ ~Done => (stdout = <<>> /\ stderr = <<>>)

\* C7 witness: a query that raised after the Document was loaded ended
\* with only a traceback.
C7_Witness ==
    Done /\ data.bound /\ exitcode = 1 /\ stdout = <<>>
         /\ stderr = <<Msg("Traceback", "AttributeError")>>

\* C8 as stated: get_split with no index argument always ends with the
\* `Missing split index` message and status 1.
C8_MissingIndexAlways ==
    (Done /\ Len(argv) = 3 /\ argv[3] = W("get_split")) =>
        (exitcode = 1 /\ stderr = <<Msg("Missing split index", "")>>)

\* C8 as amended: fewer than 2 positional arguments end with the usage
\* text and status 1 before any file is opened; get_split with no index
\* and get_field with fewer than two extra arguments end with status 1
\* and a message on standard error only, which is the missing-argument
\* message when the file loaded and the load's diagnostic when it did not.
C8_UsageErrors ==
    Done =>
        /\ Len(argv) < 3 =>
              /\ exitcode = 1 /\ stdout = <<>> /\ stderr = UsageText
              /\ handle = "unopened"
        /\ (Len(argv) = 3 /\ argv[3] = W("get_split")) =>
              /\ exitcode = 1 /\ stdout = <<>> /\ Len(stderr) = 1
              /\ data.bound <=> stderr = <<Msg("Missing split index", "")>>
              /\ ~data.bound =>
                    stderr[1].msg \in {"File not found: ", "Invalid JSON: ", "Traceback"}
        /\ (Len(argv) \in {3, 4} /\ argv[3] = W("get_field")) =>
              /\ exitcode = 1 /\ stdout = <<>> /\ Len(stderr) = 1
              /\ data.bound <=> stderr = <<Msg("Missing split index or field name", "")>>
              /\ ~data.bound =>
                    stderr[1].msg \in {"File not found: ", "Invalid JSON: ", "Traceback"}

\* C8 witness: get_split with no index on a Document that is a number
\* ended with the missing-index message.
C8_Witness ==
    Done /\ Len(argv) = 3 /\ query = "get_split" /\ data.bound /\ data.v = Num(5)
         /\ exitcode = 1 /\ stderr = <<Msg("Missing split index", "")>>

\* C9: validate prints `valid` and exits 0 for every file whose content
\* is valid JSON, and for every file that fails to load it exits 1 with a
\* message containing `Invalid JSON` and prints no `valid`.
C9_ValidateByParse ==
    (Done /\ Len(argv) >= 3 /\ argv[3] = W("validate") /\ fs.kind # "absent") =>
        /\ ValidJSON(fs) =>
              (exitcode = 0 /\ stdout = << <<W("valid")>> >> /\ stderr = <<>>)
        /\ ~data.bound =>
              /\ exitcode = 1 /\ stdout = <<>>
              /\ \E i \in 1..Len(stderr) : stderr[i].msg = "Invalid JSON: "

\* C10: for every Document that loads with a `splits` array and every N
\* in range, the text get_split N prints parses back to a value deep-equal
\* to splits[N], and the Document is as it was loaded.
C10_RoundTrip ==
    (Done /\ data.bound /\ query = "get_split" /\ HasIndex
          /\ InRange(data.v, argv[4].n)) =>
        /\ exitcode = 0 /\ Len(stdout) = 1
        /\ Loads(stdout[1]).ok
        /\ DeepEqual(Loads(stdout[1]).v,
                     DictGet(data.v, "splits").items[argv[4].n + 1])
        /\ data.v = Loads(fs.text).v

====
